---- MODULE Spec2Model ----
(***************************************************************************)
(* LocateApp: the Sports and Music event browsers (SportsScreen.js,        *)
(* MusicScreen.js), the search form (SearchControls) and the root App with *)
(* its Ticketmaster fetch and mock fallback (App.js).                      *)
(*                                                                         *)
(* Instants.  A JavaScript time value is a count of milliseconds, too wide *)
(* for TLC's integers, so an instant t is the pair [day, ms] with          *)
(* t = day * msPerDay + ms, day counted from 1970-01-01 and 0 <= ms <      *)
(* msPerDay; NaN (an Invalid Date) is the record with nan = TRUE.  Local   *)
(* time is a zone with a fixed offset (no daylight-saving change), so the  *)
(* local calendar fields of an instant are those of its day and ms.        *)
(*                                                                         *)
(* Strings that the filters search (subcategory, the category filter) are  *)
(* sequences of one-character strings; an optional value is a sequence of  *)
(* length 0 (undefined) or 1.                                              *)
(***************************************************************************)
EXTENDS Integers, Sequences, FiniteSets, TLC

\* ------------------------------------------------------------------ bounds

\* Longest event list the filter specification draws.
MaxEvents == 2
\* Number of consecutive days, from FirstDay on, the date specification covers.
DaySpan == 430
\* Fetches one run of the application issues at most.
MaxRequests == 3
\* Callbacks of handleAcceptSuggestion that wait for their timeout at one time.
MaxTimers == 1
\* Search-form submissions one run of the whole application makes at most.
MaxSubmits == 1

\* ------------------------------------------------- ECMAScript Date algebra

msPerDay == 24 * 60 * 60 * 1000

Time(d, m) == [nan |-> FALSE, day |-> d, ms |-> m]
NaN == [nan |-> TRUE, day |-> 0, ms |-> 0]

\* Relational operators on numbers: any comparison with NaN is false.
Lt(a, b) == /\ ~a.nan
            /\ ~b.nan
            /\ (a.day < b.day \/ (a.day = b.day /\ a.ms < b.ms))
LeByNegation(a, b) == ~Lt(b, a)
Le(a, b) == /\ ~a.nan
            /\ ~b.nan
            /\ (a.day < b.day \/ (a.day = b.day /\ a.ms <= b.ms))
Gt(a, b) == Lt(b, a)
Ge(a, b) == Le(b, a)

DayFromYear(y) == 365 * (y - 1970) + ((y - 1969) \div 4) - ((y - 1901) \div 100)
                  + ((y - 1601) \div 400)
InLeapYear(y) == (y % 4 = 0) /\ (y % 100 # 0 \/ y % 400 = 0)
YearFromDay(d) == CHOOSE y \in (1970 + d \div 366)..(1970 + d \div 365 + 1) :
                     DayFromYear(y) <= d /\ d < DayFromYear(y + 1)
\* First day-within-year of month m (0 = January).
MonthStarts == <<0, 31, 59, 90, 120, 151, 181, 212, 243, 273, 304, 334>>
MonthStart(m, leap) == MonthStarts[m + 1] + (IF leap /\ m >= 2 THEN 1 ELSE 0)
\* The month holding day-within-year w.
MonthOfYearDay(w, leap) ==
  CHOOSE m \in 0..11 : /\ MonthStart(m, leap) <= w
                       /\ (m = 11 \/ w < MonthStart(m + 1, leap))
DayWithinYear(d, y) == d - DayFromYear(y)
MonthInYear(d, y) == MonthOfYearDay(DayWithinYear(d, y), InLeapYear(y))
DateInYear(d, y) ==
  DayWithinYear(d, y) - MonthStart(MonthInYear(d, y), InLeapYear(y)) + 1
MonthFromDay(d) == MonthInYear(d, YearFromDay(d))
DateFromDay(d) == DateInYear(d, YearFromDay(d))
\* 0 = Sunday .. 6 = Saturday; 1970-01-01 was a Thursday.
WeekDay(d) == (d + 4) % 7
\* MakeDay: month and date may lie outside their usual ranges and carry over.
MakeDayNoCarry(year, month, date) ==
  DayFromYear(year) + MonthStart(month % 12, InLeapYear(year)) + date - 1
MakeDay(year, month, date) ==
  LET ym == year + (month \div 12)
      mn == month % 12
  IN  DayFromYear(ym) + MonthStart(mn, InLeapYear(ym)) + date - 1

getFullYear(t) == YearFromDay(t.day)
getMonth(t) == MonthFromDay(t.day)
getDate(t) == DateFromDay(t.day)
getDay(t) == WeekDay(t.day)
\* new Date(year, month, date): local midnight of the carried-over day.
NewDate(year, month, date) == Time(MakeDay(year, month, date), 0)
setHours(t, h, mi, s, ms) == Time(t.day, ((h * 60 + mi) * 60 + s) * 1000 + ms)
setDate(t, date) == Time(MakeDay(getFullYear(t), getMonth(t), date), t.ms)
setMonth(t, month) == Time(MakeDay(getFullYear(t), month, getDate(t)), t.ms)

\* --------------------------------------- the five boundaries of the filter

startOfDayOf(now) == setHours(now, 0, 0, 0, 0)
endOfDayOf(now) == setHours(now, 23, 59, 59, 999)
\* new Date(startOfDay).setDate(getDate() - getDay() + 7)
endOfWeekNoAdvance(startOfDay) ==
  setDate(startOfDay, getDate(startOfDay) - getDay(startOfDay))
endOfWeekOf(startOfDay) ==
  setDate(startOfDay, getDate(startOfDay) - getDay(startOfDay) + 7)
endOfMonthOf(now) ==
  setHours(NewDate(getFullYear(now), getMonth(now) + 1, 0), 23, 59, 59, 999)
endOfNextMonthOf(now) ==
  setHours(NewDate(getFullYear(now), getMonth(now) + 2, 0), 23, 59, 59, 999)

Boundaries(now) == [startOfDay     |-> startOfDayOf(now),
                    endOfDay       |-> endOfDayOf(now),
                    endOfWeek      |-> endOfWeekOf(startOfDayOf(now)),
                    endOfMonth     |-> endOfMonthOf(now),
                    endOfNextMonth |-> endOfNextMonthOf(now)]

\* ------------------------------------------------------------------ strings

UpperLetters == <<"A","B","C","D","E","F","G","H","I","J","K","L","M",
                  "N","O","P","Q","R","S","T","U","V","W","X","Y","Z">>
LowerLetters == <<"a","b","c","d","e","f","g","h","i","j","k","l","m",
                  "n","o","p","q","r","s","t","u","v","w","x","y","z">>
LowerChar(c) == IF \E i \in 1..26 : UpperLetters[i] = c
                THEN LowerLetters[CHOOSE i \in 1..26 : UpperLetters[i] = c]
                ELSE c
\* String.prototype.toLowerCase
toLowerCase(s) == [i \in 1..Len(s) |-> LowerChar(s[i])]

\* String.prototype.includes, as the search from position k on.
RECURSIVE IndexFrom(_, _, _)
IndexFrom(s, sub, k) ==
  IF k + Len(sub) - 1 > Len(s) THEN FALSE
  ELSE IF \A i \in 1..Len(sub) : s[k + i - 1] = sub[i] THEN TRUE
  ELSE IndexFrom(s, sub, k + 1)
includes(s, sub) == IndexFrom(s, sub, 1)

\* The string literals of the two screens.
S_Sports == <<"S","p","o","r","t","s">>
S_NFL == <<"N","F","L">>
S_NBA == <<"N","B","A">>
S_MLB == <<"M","L","B">>
S_NHL == <<"N","H","L">>
S_Music == <<"M","u","s","i","c">>
S_Rock == <<"R","o","c","k">>
S_HipHop == <<"H","i","p","-","H","o","p">>
S_Electronic == <<"E","l","e","c","t","r","o","n","i","c">>
S_Country == <<"C","o","u","n","t","r","y">>
S_NA == <<"N","/","A">>

TimeFilters == {"Today", "This Week", "This Month", "Next Month"}
Leagues == {S_NFL, S_NBA, S_MLB, S_NHL}
SportsCategories == {S_Sports} \cup Leagues
MusicGenres == {S_Music, S_Rock, S_HipHop, S_Electronic, S_Country}
CatchAll(module) == IF module = "Sports" THEN S_Sports ELSE S_Music
CategoryButtons(module) == IF module = "Sports" THEN SportsCategories ELSE MusicGenres

\* ------------------------------------------------------------------- events

\* An optional value: <<>> is undefined, <<v>> is the value v.
Undefined == <<>>
Some(v) == <<v>>

\* The date field of an event as the fetch leaves it: an ISO-8601 string (kept as
\* the instant it denotes), undefined, null, or a string that is no date.
IsoDate(d, m) == [k |-> "iso", day |-> d, ms |-> m]
UndefinedDate == [k |-> "undefined", day |-> 0, ms |-> 0]
NullDate == [k |-> "null", day |-> 0, ms |-> 0]
GarbageDate == [k |-> "garbage", day |-> 0, ms |-> 0]
toISOString(t) == IsoDate(t.day, t.ms)

\* new Date(value).valueOf(): an ISO string gives its instant, null gives 0,
\* undefined and an unparseable string give NaN.
ParseDate(raw) ==
  CASE raw.k = "iso" -> Time(raw.day, raw.ms)
    [] raw.k = "null" -> Time(0, 0)
    [] OTHER -> NaN

Event(id, category, subcategory, date) ==
  [id |-> id, category |-> category, subcategory |-> subcategory, date |-> date]

\* ---------------------------------------------------- filteredEvents (useMemo)

\* Lines 50-54 (Sports), 52-56 (Music): the time branch.
timeMatchOpenStart(eventDate, tf, b) ==
  CASE tf = "Today" -> Ge(eventDate, b.startOfDay) /\ Le(eventDate, b.endOfDay)
    [] tf = "This Week" -> Ge(eventDate, b.startOfDay) /\ Le(eventDate, b.endOfWeek)
    [] tf = "This Month" -> Ge(eventDate, b.startOfDay) /\ Le(eventDate, b.endOfMonth)
    [] tf = "Next Month" -> Ge(eventDate, b.endOfMonth) /\ Le(eventDate, b.endOfNextMonth)
    [] OTHER -> FALSE
timeMatchWeekUnbounded(eventDate, tf, b) ==
  CASE tf = "Today" -> Ge(eventDate, b.startOfDay) /\ Le(eventDate, b.endOfDay)
    [] tf = "This Week" -> Le(eventDate, b.endOfWeek)
    [] tf = "This Month" -> Ge(eventDate, b.startOfDay) /\ Le(eventDate, b.endOfMonth)
    [] tf = "Next Month" -> Gt(eventDate, b.endOfMonth) /\ Le(eventDate, b.endOfNextMonth)
    [] OTHER -> FALSE
timeMatch(eventDate, tf, b) ==
  CASE tf = "Today" -> Ge(eventDate, b.startOfDay) /\ Le(eventDate, b.endOfDay)
    [] tf = "This Week" -> Ge(eventDate, b.startOfDay) /\ Le(eventDate, b.endOfWeek)
    [] tf = "This Month" -> Ge(eventDate, b.startOfDay) /\ Le(eventDate, b.endOfMonth)
    [] tf = "Next Month" -> Gt(eventDate, b.endOfMonth) /\ Le(eventDate, b.endOfNextMonth)
    [] OTHER -> FALSE

\* The truthiness of (event.subcategory && <test>): undefined and "" are falsy.
SubcategoryTruthy(event) == event.subcategory # Undefined /\ event.subcategory[1] # <<>>

\* SportsScreen.js lines 56-61.
sportsCategoryMatchIgnoreCase(event, cf) ==
  IF cf = S_Sports THEN TRUE
  ELSE IF cf \in Leagues
       THEN SubcategoryTruthy(event)
            /\ includes(toLowerCase(event.subcategory[1]), toLowerCase(cf))
       ELSE FALSE
sportsCategoryMatchByCategory(event, cf) ==
  IF cf = S_Sports THEN event.category = "Sports"
  ELSE IF cf \in Leagues
       THEN SubcategoryTruthy(event) /\ includes(event.subcategory[1], cf)
       ELSE FALSE
sportsCategoryMatch(event, cf) ==
  IF cf = S_Sports THEN TRUE
  ELSE IF cf \in Leagues
       THEN SubcategoryTruthy(event) /\ includes(event.subcategory[1], cf)
       ELSE FALSE

\* MusicScreen.js lines 58-63.
musicCategoryMatchCaseSensitive(event, gf) ==
  IF gf = S_Music THEN TRUE
  ELSE SubcategoryTruthy(event) /\ includes(event.subcategory[1], gf)
musicCategoryMatch(event, gf) ==
  IF gf = S_Music THEN TRUE
  ELSE SubcategoryTruthy(event)
       /\ includes(toLowerCase(event.subcategory[1]), toLowerCase(gf))

categoryMatch(module, event, cf) ==
  IF module = "Sports" THEN sportsCategoryMatch(event, cf)
  ELSE musicCategoryMatch(event, cf)

\* The callback of events.filter: timeMatch && categoryMatch.
keepEvent(module, event, tf, cf, b) ==
  timeMatch(ParseDate(event.date), tf, b) /\ categoryMatch(module, event, cf)

\* Array.prototype.filter: visits the elements in index order and appends the
\* kept ones.
RECURSIVE filterFrom(_, _, _, _, _, _)
filterFrom(module, evs, k, tf, cf, b) ==
  IF k > Len(evs) THEN <<>>
  ELSE (IF keepEvent(module, evs[k], tf, cf, b) THEN <<evs[k]>> ELSE <<>>)
       \o filterFrom(module, evs, k + 1, tf, cf, b)
arrayFilter(module, evs, tf, cf, b) == filterFrom(module, evs, 1, tf, cf, b)

\* ------------------------------------------------ api.fetchTicketmasterEvents

\* An element of data._embedded.events: null, or an object whose classification
\* segment, sub-genre and start dateTime may each be missing.
RawEvent(id, segment, subGenre, dateTime) ==
  [isNull |-> FALSE, id |-> id, segment |-> segment, subGenre |-> subGenre,
   dateTime |-> dateTime]
NullElement == [isNull |-> TRUE, id |-> "", segment |-> Undefined, subGenre |-> Undefined,
                dateTime |-> UndefinedDate]

\* What the request comes to.  k is "reject" (fetch throws), "badjson"
\* (response.json() throws), "null" (the body is the JSON null), "noEmbedded"
\* (no data._embedded), "noEvents" (no data._embedded.events) or "events".
Response(k, evs) == [k |-> k, events |-> evs]

\* App.js lines 39-48: the mapping of one upstream event.  (a || b) yields b
\* when a is undefined or the empty string.
normalizeEvent(raw) ==
  Event(raw.id,
        IF raw.segment = Undefined \/ raw.segment[1] = "" THEN "Social" ELSE raw.segment[1],
        Some(IF raw.subGenre = Undefined \/ raw.subGenre[1] = <<>> THEN S_NA
             ELSE raw.subGenre[1]),
        raw.dateTime)

\* App.js lines 111-126: the mock list, dated from the clock at the call.
mockEvents(today) ==
  LET tomorrow == setDate(today, getDate(today) + 1)
      nextWeek == setDate(today, getDate(today) + 7)
      nextMonth == setMonth(today, getMonth(today) + 1)
  IN  << Event("tm-1", "Music", Undefined, toISOString(today)),
         Event("tm-2", "Sports", Some(S_NFL), toISOString(today)),
         Event("tm-3", "Music", Undefined, toISOString(tomorrow)),
         Event("tm-4", "Sports", Some(S_NBA), toISOString(nextWeek)),
         Event("tm-5", "Social", Undefined, toISOString(nextMonth)) >>

Resolved(list) == [rejected |-> FALSE, list |-> list]
Rejected == [rejected |-> TRUE, list |-> <<>>]

\* App.js lines 23-53.  Everything from the fetch to the mapping runs inside
\* try; catch returns the mock list.  Reading a field of null throws.
fetchWithoutEmptyCheck(resp, today) ==
  IF resp.k \in {"reject", "badjson", "null", "noEmbedded", "noEvents"}
  THEN Resolved(mockEvents(today))
  ELSE IF \E i \in 1..Len(resp.events) : resp.events[i].isNull
       THEN Resolved(mockEvents(today))
       ELSE Resolved([i \in 1..Len(resp.events) |-> normalizeEvent(resp.events[i])])
fetchTicketmasterEvents(resp, today) ==
  IF resp.k \in {"reject", "badjson", "null"}
  THEN Resolved(mockEvents(today))
  ELSE IF resp.k \in {"noEmbedded", "noEvents"} \/ Len(resp.events) = 0
       THEN Resolved(mockEvents(today))
       ELSE IF \E i \in 1..Len(resp.events) : resp.events[i].isNull
            THEN Resolved(mockEvents(today))
            ELSE Resolved([i \in 1..Len(resp.events) |-> normalizeEvent(resp.events[i])])

\* -------------------------------------------------------------------- state

VARIABLES
  now,             \* the wall clock, read by new Date()
  activeModule,    \* App: "Sports", "Music" or "Social"
  selectedEvent,   \* App: the event whose details are shown, or Undefined
  searchParams,    \* App: {city, stateCode, radius}; ref is the object's identity
  form,            \* SearchControls: the city, stateCode and radius inputs
  events,          \* the mounted screen's event list
  isLoading,       \* the mounted screen's loading flag
  timeFilter,      \* the mounted screen's time filter
  categoryFilter,  \* the mounted screen's categoryFilter (genreFilter in Music)
  mount,           \* identity of the mounted screen instance, 0 when none is mounted
  filteredEvents,  \* the value useMemo holds
  win,             \* the boundaries the last evaluation of the memo computed
  memoNow,         \* the instant the last evaluation of the memo read
  shownAt,         \* the instant of the screen's last render that showed the list
  pending,         \* the fetches in flight
  nextReq,         \* the number of the next fetch
  lastSettled,     \* the fetch that resolved last, with the list it resolved to
  findMyNightVisible,  \* App: the modal's visibility flag
  suggestedEvent,  \* App: the event Find My Night suggests, or Undefined
  acceptTimers,    \* the setTimeout callbacks of handleAcceptSuggestion not yet run
  lastHandler      \* which Find My Night handler ran last

appVars == <<activeModule, selectedEvent, searchParams, form>>
screenVars == <<events, isLoading, timeFilter, categoryFilter, mount>>
memoVars == <<filteredEvents, win, memoNow, shownAt>>
netVars == <<pending, nextReq, lastSettled>>
modalVars == <<findMyNightVisible, suggestedEvent, acceptTimers, lastHandler>>
vars == <<now, appVars, screenVars, memoVars, netVars, modalVars>>

\* App.js lines 409-431: a screen is rendered when no event is selected and the
\* active module is Sports or Music.
ScreenMounted == selectedEvent = Undefined /\ activeModule \in {"Sports", "Music"}

NoFetch == [id |-> 0, mount |-> 0,
            params |-> [city |-> "", stateCode |-> "", radius |-> 0, ref |-> 0],
            category |-> "", response |-> Response("none", <<>>), today |-> Time(0, 0),
            rejected |-> FALSE, result |-> <<>>]
DefaultParams == [city |-> "Denver", stateCode |-> "CO", radius |-> 50, ref |-> 0]
FormOf(p) == [city |-> p.city, stateCode |-> p.stateCode, radius |-> p.radius]

\* A Find My Night handler, the list it was given and the event it came to.
Handler(name, candidates, picked) ==
  [name |-> name, candidates |-> candidates, picked |-> picked]

\* The callback of useMemo runs: it reads the clock, computes the boundaries and
\* filters the list.
useMemoEval(module, evs, tf, cf) ==
  \E b \in {Boundaries(now)} :
    /\ win' = b
    /\ memoNow' = now
    /\ filteredEvents' = arrayFilter(module, evs, tf, cf, b)

\* The time buttons; they are rendered once the screen is not loading.
setTimeFilter(t) ==
  /\ ScreenMounted
  /\ ~isLoading
  /\ t # timeFilter
  /\ timeFilter' = t
  /\ useMemoEval(activeModule, events, t, categoryFilter)
  /\ shownAt' = now
  /\ UNCHANGED <<now, appVars, events, isLoading, categoryFilter, mount, netVars, modalVars>>

\* The category (genre) buttons.
setCategoryFilter(c) ==
  /\ ScreenMounted
  /\ ~isLoading
  /\ c \in CategoryButtons(activeModule)
  /\ c # categoryFilter
  /\ categoryFilter' = c
  /\ useMemoEval(activeModule, events, timeFilter, c)
  /\ shownAt' = now
  /\ UNCHANGED <<now, appVars, events, isLoading, timeFilter, mount, netVars, modalVars>>

\* ------------------------------------------- the date boundaries, for every now

Noon == 12 * 60 * 60 * 1000
FirstDay == MakeDay(2023, 11, 1)
DateNows == {Time(d, m) : d \in FirstDay..(FirstDay + DaySpan - 1),
                          m \in {0, 1, Noon, msPerDay - 1}}

\* A loaded Sports screen with an empty list, first rendered at any instant.
InitDates ==
  /\ now \in DateNows
  /\ activeModule = "Sports"
  /\ selectedEvent = Undefined
  /\ searchParams = DefaultParams
  /\ form = FormOf(DefaultParams)
  /\ events = <<>>
  /\ isLoading = FALSE
  /\ timeFilter = "This Month"
  /\ categoryFilter = S_Sports
  /\ mount = 1
  /\ win = Boundaries(now)
  /\ memoNow = now
  /\ filteredEvents = <<>>
  /\ pending = {}
  /\ nextReq = 2
  /\ lastSettled = [NoFetch EXCEPT !.id = 1, !.mount = 1, !.params = DefaultParams,
                                   !.category = "Sports"]
  /\ shownAt = now
  /\ findMyNightVisible = FALSE
  /\ suggestedEvent = Undefined
  /\ acceptTimers = <<>>
  /\ lastHandler = Handler("none", <<>>, Undefined)

NextDates == \E t \in TimeFilters : setTimeFilter(t)

SpecDates == InitDates /\ [][NextDates]_vars

\* ------------------------------------------- the filter, over drawn event lists

\* Three event dates and four instants of the clock, placed so that for each
\* boundary some date falls on it and some date falls one millisecond outside it.
D_Jun30End == IsoDate(MakeDay(2025, 5, 30), msPerDay - 1)
D_Jul01 == IsoDate(MakeDay(2025, 6, 1), 0)
D_Jun22 == IsoDate(MakeDay(2025, 5, 22), 0)
FilterNows == {Time(MakeDay(2025, 5, 30), Noon),
               Time(MakeDay(2025, 5, 15), Noon),
               Time(MakeDay(2025, 6, 1), 0),
               Time(MakeDay(2025, 4, 31), Noon)}

S_NFLPreseason == <<"N","F","L"," ","-"," ","P","r","e","s","e","a","s","o","n">>
S_nfl == <<"n","f","l">>
S_ClassicROCK == <<"C","l","a","s","s","i","c"," ","R","O","C","K">>
S_HipHopRap == <<"H","i","p","-","H","o","p","/","R","a","p">>

EventPool ==
  { Event("e1", "Sports", Some(S_NFL), D_Jul01),
    Event("e2", "Sports", Some(S_NFLPreseason), D_Jun30End),
    Event("e3", "Sports", Some(S_nfl), D_Jun22),
    Event("e4", "Sports", Some(S_NBA), UndefinedDate),
    Event("e5", "Music", Undefined, D_Jul01),
    Event("e6", "Music", Some(S_Rock), GarbageDate),
    Event("e7", "Music", Some(S_ClassicROCK), D_Jun30End),
    Event("e8", "Music", Some(S_HipHopRap), D_Jun22),
    Event("e9", "Sports", Some(S_MLB), NullDate) }

EventLists == UNION {[1..n -> EventPool] : n \in 0..MaxEvents}

\* A loaded screen, Sports or Music, holding any drawn list, first rendered at
\* any of the instants.
InitFilter ==
  /\ now \in FilterNows
  /\ activeModule \in {"Sports", "Music"}
  /\ selectedEvent = Undefined
  /\ searchParams = DefaultParams
  /\ form = FormOf(DefaultParams)
  /\ events \in EventLists
  /\ isLoading = FALSE
  /\ timeFilter = "This Month"
  /\ categoryFilter = CatchAll(activeModule)
  /\ mount = 1
  /\ win = Boundaries(now)
  /\ memoNow = now
  /\ filteredEvents = arrayFilter(activeModule, events, timeFilter, categoryFilter,
                                  Boundaries(now))
  /\ pending = {}
  /\ nextReq = 2
  /\ lastSettled = [NoFetch EXCEPT !.id = 1, !.mount = 1, !.params = DefaultParams,
                                   !.category = activeModule, !.result = events]
  /\ shownAt = now
  /\ findMyNightVisible = FALSE
  /\ suggestedEvent = Undefined
  /\ acceptTimers = <<>>
  /\ lastHandler = Handler("none", <<>>, Undefined)

NextFilter ==
  \/ \E t \in TimeFilters : setTimeFilter(t)
  \/ \E c \in SportsCategories \cup MusicGenres : setCategoryFilter(c)

SpecFilter == InitFilter /\ [][NextFilter]_vars

\* ------------------------------------------------------------ the application

\* The instants the clock passes through in a run of the application: the last
\* millisecond of Sunday 2025-06-15 and the first of the next day.
AppNows == <<Time(MakeDay(2025, 5, 15), msPerDay - 1), Time(MakeDay(2025, 5, 16), 0)>>

Cities == {"Denver", "Boulder"}
StateCodes == {"CO", "WY"}
Radii == {50, 25}

\* What the upstream holds for a city and a classification.
UpstreamEvents(city, category) ==
  IF city = "Denver"
  THEN << RawEvent("den-1", Some(category),
                   Some(IF category = "Sports" THEN S_NFL ELSE S_Rock),
                   IsoDate(MakeDay(2025, 5, 16), 0)),
          RawEvent("den-2", Some(category), Undefined, UndefinedDate) >>
  ELSE << RawEvent("bou-1", Some(category),
                   Some(IF category = "Sports" THEN S_NBA ELSE S_Country),
                   IsoDate(MakeDay(2025, 5, 30), Noon)) >>

\* The outcomes a request of the application can have: the transport fails, or
\* the upstream answers with its events.
AppResponses(f) == { Response("reject", <<>>),
                     Response("events", UpstreamEvents(f.params.city, f.category)) }

\* Every shape of outcome fetchTicketmasterEvents tells apart.
FetchResponses(f) ==
  { Response(k, <<>>) : k \in {"reject", "badjson", "null", "noEmbedded", "noEvents", "events"} }
  \cup { Response("events", UpstreamEvents(f.params.city, f.category)),
         Response("events", <<NullElement>>),
         Response("events", <<RawEvent("raw-1", Undefined, Undefined, UndefinedDate)>>),
         Response("events", <<RawEvent("raw-2", Some(""), Some(<<>>), GarbageDate),
                              RawEvent("raw-3", Some(f.category), Some(S_NA), NullDate)>>) }

Fetch(id, m, category, params) ==
  [id |-> id, mount |-> m, category |-> category, params |-> params]

\* A screen is constructed and rendered, and its effect runs: state from the
\* useState defaults, the memo over the empty list, one fetch issued.
MountScreenKeepFilters(module, params) ==
  /\ nextReq <= MaxRequests
  /\ events' = <<>>
  /\ isLoading' = TRUE
  /\ UNCHANGED <<timeFilter, categoryFilter>>
  /\ mount' = nextReq
  /\ useMemoEval(module, <<>>, timeFilter, categoryFilter)
  /\ shownAt' = NaN
  /\ pending' = pending \cup {Fetch(nextReq, nextReq, module, params)}
  /\ nextReq' = nextReq + 1
  /\ UNCHANGED lastSettled
MountScreen(module, params) ==
  /\ nextReq <= MaxRequests
  /\ events' = <<>>
  /\ isLoading' = TRUE
  /\ timeFilter' = "This Month"
  /\ categoryFilter' = CatchAll(module)
  /\ mount' = nextReq
  /\ useMemoEval(module, <<>>, "This Month", CatchAll(module))
  /\ shownAt' = NaN
  /\ pending' = pending \cup {Fetch(nextReq, nextReq, module, params)}
  /\ nextReq' = nextReq + 1
  /\ UNCHANGED lastSettled

\* The screen leaves the tree; its state is gone.
UnmountScreen ==
  /\ events' = <<>>
  /\ isLoading' = TRUE
  /\ timeFilter' = "This Month"
  /\ categoryFilter' = S_Sports
  /\ mount' = 0
  /\ filteredEvents' = <<>>
  /\ shownAt' = NaN
  /\ UNCHANGED <<win, memoNow, netVars>>

\* SearchControls: typing in an input changes the form's local state only.
setCity(c) ==
  /\ selectedEvent = Undefined
  /\ c # form.city
  /\ form' = [form EXCEPT !.city = c]
  /\ UNCHANGED <<now, activeModule, selectedEvent, searchParams, screenVars, memoVars, netVars,
                 modalVars>>
setStateCode(c) ==
  /\ selectedEvent = Undefined
  /\ c # form.stateCode
  /\ form' = [form EXCEPT !.stateCode = c]
  /\ UNCHANGED <<now, activeModule, selectedEvent, searchParams, screenVars, memoVars, netVars,
                 modalVars>>
setRadius(r) ==
  /\ selectedEvent = Undefined
  /\ r # form.radius
  /\ form' = [form EXCEPT !.radius = r]
  /\ UNCHANGED <<now, activeModule, selectedEvent, searchParams, screenVars, memoVars, netVars,
                 modalVars>>

\* SearchControls.handleSubmit -> App.setSearchParams with a new object; the
\* mounted screen's effect sees a new searchParams and runs loadSportsData /
\* loadMusicData up to its await.
submitCityOnly ==
  /\ selectedEvent = Undefined
  /\ searchParams' = [searchParams EXCEPT !.city = form.city, !.ref = searchParams.ref + 1]
  /\ IF ScreenMounted
     THEN /\ nextReq <= MaxRequests
          /\ isLoading' = TRUE
          /\ pending' = pending \cup {Fetch(nextReq, mount, activeModule, searchParams')}
          /\ nextReq' = nextReq + 1
     ELSE UNCHANGED <<isLoading, pending, nextReq>>
  /\ shownAt' = IF ScreenMounted /\ ~isLoading THEN now ELSE shownAt
  /\ UNCHANGED <<now, activeModule, selectedEvent, form, events, timeFilter,
                 categoryFilter, mount, filteredEvents, win, memoNow, lastSettled, modalVars>>
handleSubmit ==
  /\ selectedEvent = Undefined
  /\ searchParams' = [city |-> form.city, stateCode |-> form.stateCode,
                      radius |-> form.radius, ref |-> searchParams.ref + 1]
  /\ IF ScreenMounted
     THEN /\ nextReq <= MaxRequests
          /\ isLoading' = TRUE
          /\ pending' = pending \cup {Fetch(nextReq, mount, activeModule, searchParams')}
          /\ nextReq' = nextReq + 1
     ELSE UNCHANGED <<isLoading, pending, nextReq>>
  /\ shownAt' = IF ScreenMounted /\ ~isLoading THEN now ELSE shownAt
  /\ UNCHANGED <<now, activeModule, selectedEvent, form, events, timeFilter,
                 categoryFilter, mount, filteredEvents, win, memoNow, lastSettled, modalVars>>

\* The bottom navigation.  While an event's details are shown no screen is in
\* the tree and only activeModule changes.
setActiveModule(m) ==
  /\ m # activeModule
  /\ activeModule' = m
  /\ IF selectedEvent # Undefined
     THEN UNCHANGED <<screenVars, memoVars, netVars>>
     ELSE IF m \in {"Sports", "Music"}
          THEN MountScreen(m, searchParams)
          ELSE UnmountScreen
  /\ UNCHANGED <<now, selectedEvent, searchParams, form, modalVars>>

\* App.handleEventSelect, from a card of the shown list: the details screen
\* replaces SearchControls and the module screen.
handleEventSelect(e) ==
  /\ ScreenMounted
  /\ ~isLoading
  /\ \E i \in 1..Len(filteredEvents) : filteredEvents[i] = e
  /\ selectedEvent' = Some(e)
  /\ UnmountScreen
  /\ UNCHANGED <<now, activeModule, searchParams, form, modalVars>>

\* App.handleBack: SearchControls is constructed again from searchParams and
\* the active module's screen is mounted again.
handleBack ==
  /\ selectedEvent # Undefined
  /\ selectedEvent' = Undefined
  /\ form' = FormOf(searchParams)
  /\ IF activeModule \in {"Sports", "Music"}
     THEN MountScreen(activeModule, searchParams)
     ELSE UNCHANGED <<screenVars, memoVars, netVars>>
  /\ UNCHANGED <<now, activeModule, searchParams, modalVars>>

\* The continuation of loadSportsData / loadMusicData after its await: the fetch
\* of request f settles with outcome resp.  setEvents and setIsLoading act on
\* the instance that issued f; on an unmounted instance they do nothing.
applySequenceGuarded(f, resp) ==
  \E res \in {fetchTicketmasterEvents(resp, now)} :
    /\ pending' = pending \ {f}
    /\ lastSettled' = [id |-> f.id, mount |-> f.mount, params |-> f.params,
                       category |-> f.category, response |-> resp, today |-> now,
                       rejected |-> res.rejected, result |-> res.list]
    /\ IF f.mount = mount /\ ~res.rejected /\ f.id = nextReq - 1
       THEN /\ events' = res.list
            /\ isLoading' = FALSE
            /\ useMemoEval(activeModule, res.list, timeFilter, categoryFilter)
            /\ shownAt' = now
       ELSE UNCHANGED <<events, isLoading, memoVars>>
    /\ UNCHANGED <<now, appVars, timeFilter, categoryFilter, mount, nextReq, modalVars>>
applyResult(f, resp) ==
  \E res \in {fetchTicketmasterEvents(resp, now)} :
    /\ pending' = pending \ {f}
    /\ lastSettled' = [id |-> f.id, mount |-> f.mount, params |-> f.params,
                       category |-> f.category, response |-> resp, today |-> now,
                       rejected |-> res.rejected, result |-> res.list]
    /\ IF f.mount = mount /\ ~res.rejected
       THEN /\ events' = res.list
            /\ isLoading' = FALSE
            /\ useMemoEval(activeModule, res.list, timeFilter, categoryFilter)
            /\ shownAt' = now
       ELSE UNCHANGED <<events, isLoading, memoVars>>
    /\ UNCHANGED <<now, appVars, timeFilter, categoryFilter, mount, nextReq, modalVars>>

ResolveFetch == \E f \in pending : \E resp \in AppResponses(f) : applyResult(f, resp)
SettleFetch == \E f \in pending : \E resp \in FetchResponses(f) : applyResult(f, resp)

\* The clock moves on; nothing renders.
Tick ==
  /\ \E i \in 1..(Len(AppNows) - 1) : now = AppNows[i] /\ now' = AppNows[i + 1]
  /\ UNCHANGED <<appVars, screenVars, memoVars, netVars, modalVars>>

\* App is constructed with the Sports screen, whose effect has issued fetch 1.
Init ==
  /\ now = AppNows[1]
  /\ activeModule = "Sports"
  /\ selectedEvent = Undefined
  /\ searchParams = DefaultParams
  /\ form = FormOf(DefaultParams)
  /\ events = <<>>
  /\ isLoading = TRUE
  /\ timeFilter = "This Month"
  /\ categoryFilter = S_Sports
  /\ mount = 1
  /\ filteredEvents = <<>>
  /\ win = Boundaries(now)
  /\ memoNow = now
  /\ pending = {Fetch(1, 1, "Sports", DefaultParams)}
  /\ nextReq = 2
  /\ lastSettled = NoFetch
  /\ shownAt = NaN
  /\ findMyNightVisible = FALSE
  /\ suggestedEvent = Undefined
  /\ acceptTimers = <<>>
  /\ lastHandler = Handler("none", <<>>, Undefined)

\* The whole application but for the filter buttons and the clock, which act on
\* the memo alone and are exercised by SpecFilter and SpecDates.
Next ==
  \/ \E c \in Cities : setCity(c)
  \/ \E c \in StateCodes : setStateCode(c)
  \/ \E r \in Radii : setRadius(r)
  \/ (searchParams.ref < MaxSubmits /\ handleSubmit)
  \/ \E m \in {"Sports", "Music", "Social"} : setActiveModule(m)
  \/ \E i \in 1..Len(filteredEvents) : handleEventSelect(filteredEvents[i])
  \/ handleBack
  \/ ResolveFetch

Spec == Init /\ [][Next]_vars

\* Overlapping fetches: the city is searched again and again while a Sports or
\* a Music screen is mounted, every request settling at any later moment with
\* any outcome.
NextRace ==
  \/ \E c \in Cities : setCity(c)
  \/ handleSubmit
  \/ \E m \in {"Sports", "Music"} : setActiveModule(m)
  \/ ResolveFetch
  \/ Tick

SpecRace == Init /\ [][NextRace]_vars

\* fetchTicketmasterEvents over every shape of outcome, called at the turn of a
\* day, of a month and of a year.
FetchNows == { Time(MakeDay(2025, 5, 15), Noon),
               Time(MakeDay(2025, 0, 31), msPerDay - 1),
               Time(MakeDay(2024, 11, 31), Noon),
               Time(MakeDay(2024, 1, 29), 0) }

InitFetch ==
  /\ now \in FetchNows
  /\ activeModule = "Sports"
  /\ selectedEvent = Undefined
  /\ searchParams = DefaultParams
  /\ form = FormOf(DefaultParams)
  /\ events = <<>>
  /\ isLoading = TRUE
  /\ timeFilter = "This Month"
  /\ categoryFilter = S_Sports
  /\ mount = 1
  /\ filteredEvents = <<>>
  /\ win = Boundaries(now)
  /\ memoNow = now
  /\ pending = {Fetch(1, 1, "Sports", DefaultParams)}
  /\ nextReq = 2
  /\ lastSettled = NoFetch
  /\ shownAt = NaN
  /\ findMyNightVisible = FALSE
  /\ suggestedEvent = Undefined
  /\ acceptTimers = <<>>
  /\ lastHandler = Handler("none", <<>>, Undefined)

NextFetch ==
  \/ \E c \in Cities : setCity(c)
  \/ handleSubmit
  \/ SettleFetch

SpecFetch == InitFetch /\ [][NextFetch]_vars

\* ------------------------------------------------------------ Find My Night

\* App.js lines 340-341: what FindMyNightModal renders for its props.
FindMyNightModalUnguarded(visible, event) == "modal"
FindMyNightModal(visible, event) ==
  IF ~visible \/ event = Undefined THEN "null" ELSE "modal"
ModalShown == FindMyNightModal(findMyNightVisible, suggestedEvent) = "modal"

\* NightPicker.pick (spec 4.3), which the source does not have: the outcomes
\* of a uniform choice, none for the empty list.
pickOrNone(candidates) ==
  {Undefined} \cup {Some(candidates[i]) : i \in 1..Len(candidates)}
pick(candidates) ==
  IF Len(candidates) = 0 THEN {Undefined}
  ELSE {Some(candidates[i]) : i \in 1..Len(candidates)}

\* The Find My Night button of the browsing view (spec 2 and 4.3), which no
\* handler of App implements: pick over the list on the page; with no pick the
\* modal stays closed, otherwise the pick is suggested in the modal.
findMyNight ==
  /\ ScreenMounted
  /\ ~isLoading
  /\ ~ModalShown
  /\ \E p \in pick(filteredEvents) :
       /\ lastHandler' = Handler("findMyNight", filteredEvents, p)
       /\ IF p = Undefined
          THEN UNCHANGED <<findMyNightVisible, suggestedEvent>>
          ELSE /\ suggestedEvent' = p
               /\ findMyNightVisible' = TRUE
  /\ UNCHANGED <<now, appVars, screenVars, memoVars, netVars, acceptTimers>>

\* App.js line 433: onRetry, the 'Try Again' button.
onRetry ==
  /\ ModalShown
  /\ findMyNightVisible' = FALSE
  /\ lastHandler' = Handler("retry", <<>>, Undefined)
  /\ UNCHANGED <<now, appVars, screenVars, memoVars, netVars, suggestedEvent, acceptTimers>>

\* App.js line 433: onClose, 'Maybe Later' or a click outside the modal.
onClose ==
  /\ ModalShown
  /\ findMyNightVisible' = FALSE
  /\ lastHandler' = Handler("close", <<>>, Undefined)
  /\ UNCHANGED <<now, appVars, screenVars, memoVars, netVars, suggestedEvent, acceptTimers>>

\* App.js lines 398-404 and 347, 355: the card or 'Let's Go!' runs
\* handleAcceptSuggestion, whose timeout callback keeps the suggestedEvent of
\* this render, and then onClose.
handleAcceptSuggestion ==
  /\ ModalShown
  /\ findMyNightVisible' = FALSE
  /\ acceptTimers' = Append(acceptTimers, suggestedEvent)
  /\ lastHandler' = Handler("accept", <<>>, suggestedEvent)
  /\ UNCHANGED <<now, appVars, screenVars, memoVars, netVars, suggestedEvent>>

\* App.js lines 400-403: the timeout callback; with an event selected the
\* details screen replaces SearchControls and the module screen.
acceptTimeoutCurrent ==
  /\ acceptTimers # <<>>
  /\ selectedEvent' = suggestedEvent
  /\ acceptTimers' = Tail(acceptTimers)
  /\ IF ScreenMounted THEN UnmountScreen ELSE UNCHANGED <<screenVars, memoVars, netVars>>
  /\ UNCHANGED <<now, activeModule, searchParams, form, findMyNightVisible, suggestedEvent,
                 lastHandler>>
acceptTimeout ==
  /\ acceptTimers # <<>>
  /\ selectedEvent' = Head(acceptTimers)
  /\ acceptTimers' = Tail(acceptTimers)
  /\ IF ScreenMounted THEN UnmountScreen ELSE UNCHANGED <<screenVars, memoVars, netVars>>
  /\ UNCHANGED <<now, activeModule, searchParams, form, findMyNightVisible, suggestedEvent,
                 lastHandler>>

\* The browsing view with Find My Night.  The modal lies over the whole page:
\* while it is shown only its own buttons can be pressed.
NextModal ==
  \/ ResolveFetch
  \/ (~ModalShown /\ \E t \in TimeFilters : setTimeFilter(t))
  \/ (~ModalShown /\ \E c \in SportsCategories : setCategoryFilter(c))
  \/ (~ModalShown /\ \E i \in 1..Len(filteredEvents) : handleEventSelect(filteredEvents[i]))
  \/ (~ModalShown /\ handleBack)
  \/ findMyNight
  \/ onRetry
  \/ onClose
  \/ (Len(acceptTimers) < MaxTimers /\ handleAcceptSuggestion)
  \/ acceptTimeout

SpecModal == Init /\ [][NextModal]_vars

\* The screens under overlapping fetches, every step that can be taken being
\* taken in the end.
SpecRaceFair == SpecRace /\ WF_vars(NextRace)

\* The views with their filter buttons, the navigation, the details screen and
\* one search of another city.
NextView ==
  \/ ResolveFetch
  \/ \E t \in TimeFilters : setTimeFilter(t)
  \/ \E c \in SportsCategories \cup MusicGenres : setCategoryFilter(c)
  \/ \E m \in {"Sports", "Music", "Social"} : setActiveModule(m)
  \/ \E i \in 1..Len(filteredEvents) : handleEventSelect(filteredEvents[i])
  \/ handleBack
  \/ \E c \in Cities : setCity(c)
  \/ (searchParams.ref < MaxSubmits /\ handleSubmit)

SpecView == Init /\ [][NextView]_vars

\* =================================================================== claims

\* C2: for every instant now, the five boundaries the filter computes satisfy
\* startOfDay <= endOfDay < endOfWeek, endOfDay <= endOfMonth and
\* endOfMonth < endOfNextMonth, also on the last day of a month and in December.
C2_BoundariesOrdered ==
  /\ win = Boundaries(memoNow)
  /\ Le(win.startOfDay, win.endOfDay)
  /\ Lt(win.endOfDay, win.endOfWeek)
  /\ Le(win.endOfDay, win.endOfMonth)
  /\ Lt(win.endOfMonth, win.endOfNextMonth)
\* now is 2024-12-31: the month ends today and the next month ends next year.
C2_Witness ==
  /\ memoNow.day = DayFromYear(2025) - 1
  /\ win.endOfMonth = win.endOfDay
  /\ win.endOfNextMonth = Time(DayFromYear(2025) + 30, msPerDay - 1)

\* C10: for every instant now, endOfWeek is startOfDay advanced by
\* (7 - dayOfWeek(startOfDay)) whole days (0 = Sunday), at 00:00:00.000: a Sunday
\* at midnight, 1 to 7 days after startOfDay, and 7 days after when now is a
\* Sunday.  Day 3 (1970-01-04) was a Sunday.
C10_EndOfWeek ==
  LET s == win.startOfDay
      dow == (s.day - 3) % 7
  IN  /\ s = Time(memoNow.day, 0)
      /\ win.endOfWeek = Time(s.day + (7 - dow), 0)
      /\ (win.endOfWeek.day - 3) % 7 = 0
      /\ (win.endOfWeek.day - s.day) \in 1..7
      /\ (dow = 0 => win.endOfWeek.day = s.day + 7)
\* now is Sunday 2024-12-29 and the week ends on Sunday 2025-01-05.
C10_Witness ==
  /\ memoNow.day = DayFromYear(2025) - 3
  /\ (memoNow.day - 3) % 7 = 0
  /\ win.endOfWeek = Time(DayFromYear(2025) + 4, 0)

\* ---- the vocabulary of the filter claims, stated apart from the code's operators

\* The instant an event's date denotes, when it denotes one.
HasInstant(e) == e.date.k = "iso"
NotAfter(a, b) == a.day < b.day \/ (a.day = b.day /\ a.ms <= b.ms)
Before(a, b) == a.day < b.day \/ (a.day = b.day /\ a.ms < b.ms)
\* The table of time windows, over the boundaries the evaluation computed.
InWindow(e, tf) ==
  /\ HasInstant(e)
  /\ \/ tf = "Today" /\ NotAfter(win.startOfDay, e.date) /\ NotAfter(e.date, win.endOfDay)
     \/ tf = "This Week" /\ NotAfter(win.startOfDay, e.date) /\ NotAfter(e.date, win.endOfWeek)
     \/ tf = "This Month" /\ NotAfter(win.startOfDay, e.date) /\ NotAfter(e.date, win.endOfMonth)
     \/ tf = "Next Month" /\ Before(win.endOfMonth, e.date) /\ NotAfter(e.date, win.endOfNextMonth)

\* f occurs in s as a run of consecutive characters.
IsSubstring(f, s) ==
  \E i \in 1..(Len(s) + 1) : \E j \in (i - 1)..Len(s) : SubSeq(s, i, j) = f
SameLetter(c, d) ==
  c = d \/ \E i \in 1..26 : {c, d} = {UpperLetters[i], LowerLetters[i]}
\* f occurs in s when letter case is ignored.
IsSubstringIgnoringCase(f, s) ==
  \E i \in 0..(Len(s) - Len(f)) : \A k \in 1..Len(f) : SameLetter(s[i + k], f[k])
HasSubcategory(e) == e.subcategory # Undefined

InCategory(module, e, cf) ==
  \/ cf = CatchAll(module)
  \/ /\ module = "Sports"
     /\ cf \in Leagues
     /\ HasSubcategory(e)
     /\ IsSubstring(cf, e.subcategory[1])
  \/ /\ module = "Music"
     /\ cf # S_Music
     /\ HasSubcategory(e)
     /\ IsSubstringIgnoringCase(cf, e.subcategory[1])

\* r holds exactly the elements of evs at the positions that satisfy P, in the
\* order of evs: the i-th kept position supplies r[i].
InOrderSubsequence(r, evs, P(_)) ==
  LET Kept == {k \in 1..Len(evs) : P(evs[k])}
  IN  /\ Len(r) = Cardinality(Kept)
      /\ \A k \in Kept : r[Cardinality({j \in Kept : j <= k})] = evs[k]

\* C1: for every event list, timeFilter, categoryFilter and instant, the list
\* the Sports or Music view shows is exactly the in-order subsequence of the
\* events that satisfy the time window of the table and the category predicate;
\* nothing is added, duplicated or reordered.
C1_BothPredicates(e) == InWindow(e, timeFilter) /\ InCategory(activeModule, e, categoryFilter)
C1_FilterIsSubsequence ==
  /\ win = Boundaries(memoNow)
  /\ InOrderSubsequence(filteredEvents, events, C1_BothPredicates)
\* Next Month is chosen, the first event is dated exactly endOfMonth and the
\* second one millisecond later: only the second is shown.
C1_Witness ==
  /\ timeFilter = "Next Month"
  /\ Len(events) = 2
  /\ events[1].date = toISOString(win.endOfMonth)
  /\ Before(win.endOfMonth, events[2].date)
  /\ filteredEvents = <<events[2]>>

\* C6: with the catch-all filter (Sports in the Sports view, Music in the Music
\* view) the shown list is exactly the in-order subsequence of the events inside
\* the time window, whatever their category or subcategory.
C6_TimeOnly(e) == InWindow(e, timeFilter)
C6_CatchAllIsTimeOnly ==
  categoryFilter = CatchAll(activeModule)
    => InOrderSubsequence(filteredEvents, events, C6_TimeOnly)
\* The Sports view under Sports shows a Music event that has no subcategory.
C6_Witness ==
  /\ activeModule = "Sports"
  /\ categoryFilter = S_Sports
  /\ \E i \in 1..Len(filteredEvents) :
       /\ filteredEvents[i].category = "Music"
       /\ filteredEvents[i].subcategory = Undefined

\* C7: an event whose date is absent (undefined) or unparseable is shown under
\* no time filter and no category filter, and the shown list is the one the
\* filter gives for the list without such events.
C7_BadDate(e) == e.date.k \in {"undefined", "garbage"}
C7_GoodDate(e) == ~C7_BadDate(e)
C7_BadDateExcluded ==
  /\ \A k \in 1..Len(events) :
       C7_BadDate(events[k])
         => \A i \in 1..Len(filteredEvents) : filteredEvents[i] # events[k]
  /\ filteredEvents = arrayFilter(activeModule, SelectSeq(events, C7_GoodDate),
                                  timeFilter, categoryFilter, win)
\* A list of a bad-dated event that is in the chosen category and a dated event
\* that is shown.
C7_Witness ==
  /\ Len(events) = 2
  /\ C7_BadDate(events[1])
  /\ categoryFilter # CatchAll(activeModule)
  /\ InCategory(activeModule, events[1], categoryFilter)
  /\ filteredEvents = <<events[2]>>

\* C8: in the Sports view with categoryFilter NFL, NBA, MLB or NHL an event
\* passes the category predicate iff its subcategory is present and contains
\* the filter as a case-sensitive substring.
C8_InLeague(e) ==
  /\ InWindow(e, timeFilter)
  /\ HasSubcategory(e)
  /\ IsSubstring(categoryFilter, e.subcategory[1])
C8_SportsLeagueMatch ==
  (activeModule = "Sports" /\ categoryFilter \in Leagues)
    => /\ \A k \in 1..Len(events) :
            sportsCategoryMatch(events[k], categoryFilter)
              <=> (HasSubcategory(events[k])
                   /\ IsSubstring(categoryFilter, events[k].subcategory[1]))
       /\ InOrderSubsequence(filteredEvents, events, C8_InLeague)
\* Under NFL, of 'nfl' and 'NFL - Preseason', both inside the window, only the
\* second is shown.
C8_Witness ==
  /\ activeModule = "Sports"
  /\ categoryFilter = S_NFL
  /\ Len(events) = 2
  /\ events[1].subcategory = Some(S_nfl)
  /\ events[2].subcategory = Some(S_NFLPreseason)
  /\ InWindow(events[1], timeFilter)
  /\ filteredEvents = <<events[2]>>

\* C9: in the Music view with a genre other than Music an event passes the
\* category predicate iff its subcategory is present and contains the genre
\* when letter case is ignored on both sides.
C9_InGenre(e) ==
  /\ InWindow(e, timeFilter)
  /\ HasSubcategory(e)
  /\ IsSubstringIgnoringCase(categoryFilter, e.subcategory[1])
C9_MusicGenreMatch ==
  (activeModule = "Music" /\ categoryFilter # S_Music)
    => /\ \A k \in 1..Len(events) :
            musicCategoryMatch(events[k], categoryFilter)
              <=> (HasSubcategory(events[k])
                   /\ IsSubstringIgnoringCase(categoryFilter, events[k].subcategory[1]))
       /\ InOrderSubsequence(filteredEvents, events, C9_InGenre)
\* Under Rock, 'Classic ROCK' is shown and an event without subcategory, also
\* inside the window, is not.
C9_Witness ==
  /\ activeModule = "Music"
  /\ categoryFilter = S_Rock
  /\ Len(events) = 2
  /\ events[1].subcategory = Undefined
  /\ InWindow(events[1], timeFilter)
  /\ events[2].subcategory = Some(S_ClassicROCK)
  /\ filteredEvents = <<events[2]>>

\* The mock list: exactly five events, each with an id, a category and a date.
IsMockList(list) ==
  /\ Len(list) = 5
  /\ \A i \in 1..5 :
       /\ list[i].id = <<"tm-1", "tm-2", "tm-3", "tm-4", "tm-5">>[i]
       /\ list[i].category \in {"Music", "Sports", "Social"}
       /\ list[i].date.k = "iso"
\* The list is the upstream's events, one for one, in the application's shape.
IsNormalized(list, upstream) ==
  /\ Len(list) = Len(upstream)
  /\ \A i \in 1..Len(upstream) :
       /\ ~upstream[i].isNull
       /\ list[i].id = upstream[i].id
       /\ list[i].date = upstream[i].dateTime
       /\ list[i].category \in {"Social"} \cup {upstream[i].segment[j] : j \in 1..Len(upstream[i].segment)}
       /\ list[i].subcategory \in {Some(S_NA)} \cup {Some(upstream[i].subGenre[j]) : j \in 1..Len(upstream[i].subGenre)}
CarriesNoEvents(resp) ==
  resp.k \in {"reject", "noEmbedded", "noEvents"} \/ (resp.k = "events" /\ Len(resp.events) = 0)

\* C3: fetchTicketmasterEvents never fails towards its caller; when the transport
\* call throws or the response carries no events (the array missing or empty)
\* it resolves to the mock list of exactly 5 proper events; a result other than
\* the mock list comes only from a response with at least one event, and is
\* then the normalized upstream events.
C3_FetchNeverFails ==
  lastSettled # NoFetch =>
    /\ ~lastSettled.rejected
    /\ CarriesNoEvents(lastSettled.response) => IsMockList(lastSettled.result)
    /\ ~IsMockList(lastSettled.result) =>
         /\ lastSettled.response.k = "events"
         /\ Len(lastSettled.response.events) >= 1
         /\ IsNormalized(lastSettled.result, lastSettled.response.events)
C3_Witness ==
  /\ lastSettled.response = Response("events", <<>>)
  /\ IsMockList(lastSettled.result)
  /\ events = lastSettled.result
  /\ ~isLoading

\* C4: while one module stays mounted, every fetch it issued applies its result
\* to the event list when it resolves, whatever was issued or resolved since:
\* the event list is the result of the fetch of this mount that completed last,
\* also when that fetch was issued before another that has completed already.
C4_LastCompletedWins ==
  (lastSettled # NoFetch /\ lastSettled.mount = mount) =>
    events = lastSettled.result
C4_Witness ==
  /\ lastSettled.mount = mount
  /\ \A f \in pending : f.mount # mount
  /\ nextReq - 1 > lastSettled.id
  /\ lastSettled.params.city # searchParams.city
  /\ events = lastSettled.result
  /\ ~IsMockList(events)

\* C5: a step that changes SearchParams sets all three of city, stateCode and
\* radius from the form at once, and with a Sports or Music screen mounted it
\* starts a fetch for the new tuple; a step that edits the form leaves
\* SearchParams and the event list as they were.
C5_SubmitReplacesWhole ==
  [][ /\ searchParams' # searchParams =>
           /\ FormOf(searchParams') = form
           /\ ScreenMounted =>
                \E f \in pending' \ pending :
                  /\ f.params = searchParams'
                  /\ f.mount = mount
                  /\ f.category = activeModule
                  /\ isLoading'
      /\ (form' # form /\ selectedEvent = Undefined) =>
           /\ searchParams' = searchParams
           /\ events' = events
           /\ pending' = pending ]_vars
C5_Witness ==
  /\ searchParams.ref = 1
  /\ searchParams.city # DefaultParams.city
  /\ searchParams.stateCode # DefaultParams.stateCode
  /\ searchParams.radius # DefaultParams.radius
  /\ \E f \in pending : f.params = searchParams /\ f.mount = mount
  /\ form.city # searchParams.city
  /\ Len(events) > 0

\* The instant k milliseconds (-1, 0 or 1) after t.
ShiftMs(t, k) ==
  IF t.ms + k < 0 THEN Time(t.day - 1, msPerDay - 1)
  ELSE IF t.ms + k >= msPerDay THEN Time(t.day + 1, 0)
  ELSE Time(t.day, t.ms + k)
\* Every boundary of the table and the instants one millisecond off it: the end
\* points of every window are among them.
EdgeInstants(b) ==
  { ShiftMs(x, k) : x \in {b.startOfDay, b.endOfDay, b.endOfWeek, b.endOfMonth,
                           b.endOfNextMonth},
                    k \in {-1, 0, 1} }
\* Window tf1 lies inside window tf2.
WindowInside(tf1, tf2, b) ==
  \A t \in EdgeInstants(b) : timeMatch(t, tf1, b) => timeMatch(t, tf2, b)
WindowsOf(t, b) == { tf \in TimeFilters : timeMatch(t, tf, b) }
\* The members of the set ws of windows that lie inside all its others.
TightestIn(ws, b) == { m \in ws : \A o \in ws : WindowInside(m, o, b) }
TightestOf(t, b) == TightestIn(WindowsOf(t, b), b)
InReach(t, b) == Ge(t, b.startOfDay) /\ Le(t, b.endOfNextMonth)
DatedEvents == { ParseDate(events[i].date) : i \in { j \in 1..Len(events) : HasInstant(events[j]) } }

\* C11 as claimed: for every instant now and every event with a valid date the
\* set of windows whose time predicate the event satisfies is non-empty and has
\* exactly one member that lies inside all the others of the set.
C11_TightestWindowAlways ==
  \A t \in DatedEvents : Cardinality(TightestOf(t, win)) = 1

\* C11, amended: for every instant now, every event dated from startOfDay to
\* endOfNextMonth (and every instant on or next to a boundary in that range)
\* satisfies at least one window; unless the windows it satisfies are exactly
\* This Week and Next Month, one of them lies inside all the others, and it is
\* the only one except on the last day of a month, when Today and This Month
\* are the same window.
C11_TightestWindowInReach ==
  \A t \in DatedEvents \cup EdgeInstants(win) :
    InReach(t, win) =>
      \E ws \in {WindowsOf(t, win)} :
        /\ ws # {}
        /\ ws # {"This Week", "Next Month"} =>
             \E least \in {TightestIn(ws, win)} :
               /\ least # {}
               /\ Cardinality(least) > 1 =>
                    /\ least = {"Today", "This Month"}
                    /\ win.endOfDay = win.endOfMonth
C11_Witness ==
  \E t \in DatedEvents :
    /\ InReach(t, win)
    /\ WindowsOf(t, win) = {"This Week", "This Month"}
    /\ TightestOf(t, win) = {"This Week"}
    /\ \E i \in 1..Len(filteredEvents) : ParseDate(filteredEvents[i].date) = t

\* C12: at every render of the Sports or Music view that shows the list, the
\* list shown is the filter applied to the events, the filter state and the
\* clock of that render; a render after midnight reclassifies the events even
\* when the events and the filter state are the same as before.
C12_ListIsFilterAtRender ==
  (ScreenMounted /\ shownAt # NaN) =>
    filteredEvents = arrayFilter(activeModule, events, timeFilter, categoryFilter,
                                 Boundaries(shownAt))

\* C13: from the browsing view with at least one event in the list, Find My
\* Night leads to a state where the suggestion modal is shown with an event of
\* that list.
C13_FindMyNightOpens ==
  (ScreenMounted /\ ~isLoading /\ Len(filteredEvents) >= 1)
    ~> (ModalShown /\ \E i \in 1..Len(filteredEvents) : suggestedEvent = Some(filteredEvents[i]))

\* C14: a press of 'Try Again' while the modal is shown leaves the modal shown
\* and the selected event as it was.
C14_RetryKeepsOpen ==
  [][ (ModalShown /\ lastHandler'.name = "retry") =>
        (ModalShown' /\ selectedEvent' = selectedEvent) ]_vars

\* C15: accepting closes the modal and leaves to a timeout the event suggested
\* at that moment, and the timeout puts the app into the details view of
\* exactly that event; dismissing closes the modal and leaves the selected
\* event as it was.
C15_AcceptThenDetails ==
  [][ /\ Len(acceptTimers') > Len(acceptTimers) =>
           /\ ~ModalShown'
           /\ acceptTimers' = Append(acceptTimers, suggestedEvent)
           /\ selectedEvent' = selectedEvent
      /\ Len(acceptTimers') < Len(acceptTimers) =>
           /\ selectedEvent' = Head(acceptTimers)
           /\ selectedEvent' # Undefined
      /\ (ModalShown /\ lastHandler'.name = "close") =>
           /\ ~ModalShown'
           /\ selectedEvent' = selectedEvent
           /\ acceptTimers' = acceptTimers ]_vars
C15_Witness ==
  /\ lastHandler.name = "accept"
  /\ acceptTimers = <<>>
  /\ selectedEvent # Undefined
  /\ selectedEvent = lastHandler.picked
  /\ ~ModalShown

\* C16: the pick over the empty list is none, the pick over a one-element list
\* is its element, and a pick over a non-empty list is one of its members.
C16_PickIsMember ==
  lastHandler.name = "findMyNight" =>
    /\ Len(lastHandler.candidates) = 0 => lastHandler.picked = Undefined
    /\ Len(lastHandler.candidates) = 1 => lastHandler.picked = Some(lastHandler.candidates[1])
    /\ Len(lastHandler.candidates) >= 1 =>
         \E i \in 1..Len(lastHandler.candidates) :
           lastHandler.picked = Some(lastHandler.candidates[i])
C16_Witness ==
  /\ lastHandler.name = "findMyNight"
  /\ Len(lastHandler.candidates) = 1
  /\ suggestedEvent = Some(lastHandler.candidates[1])
  /\ ModalShown

\* C17: in every state the suggestion modal is rendered only if there is a
\* suggested event; after a pick over an empty list there is none and no modal.
C17_ModalNeedsSuggestion == ModalShown => suggestedEvent # Undefined
C17_Witness ==
  /\ lastHandler.name = "findMyNight"
  /\ Len(lastHandler.candidates) = 0
  /\ suggestedEvent = Undefined
  /\ ~ModalShown

\* C18: in the Sports and Music views isLoading is false only when no fetch
\* issued by the mounted screen is still in flight.
C18_LoadingWhilePending ==
  (ScreenMounted /\ \E f \in pending : f.mount = mount) => isLoading

\* C19: every event shown in the Sports view has category 'Sports' and every
\* event shown in the Music view has category 'Music', whatever the fetch came
\* to.
C19_ShownMatchesModule ==
  (ScreenMounted /\ ~isLoading) =>
    \A i \in 1..Len(filteredEvents) : filteredEvents[i].category = activeModule

\* C20: a step that mounts a screen leaves it with timeFilter 'This Month', the
\* catch-all category, an empty list, the loading flag set and a new fetch in
\* flight for the current SearchParams; a step that opens or leaves the details
\* view changes neither SearchParams nor the active module.
C20_RemountResets ==
  [][ /\ (mount' # mount /\ mount' # 0) =>
           /\ timeFilter' = "This Month"
           /\ categoryFilter' = CatchAll(activeModule')
           /\ events' = <<>>
           /\ isLoading'
           /\ \E f \in pending' \ pending :
                /\ f.mount = mount'
                /\ f.params = searchParams'
                /\ f.category = activeModule'
      /\ ((selectedEvent = Undefined) # (selectedEvent' = Undefined)) =>
           /\ searchParams' = searchParams
           /\ activeModule' = activeModule ]_vars
C20_Witness ==
  /\ ScreenMounted
  /\ mount > 1
  /\ lastSettled.mount \in 1..(mount - 1)
  /\ timeFilter = "This Month"
  /\ categoryFilter = CatchAll(activeModule)
  /\ events = <<>>
  /\ isLoading
  /\ searchParams # DefaultParams
  /\ \E f \in pending : f.mount = mount /\ f.params = searchParams

====
